---- MODULE Spec2Model ----
(***************************************************************************)
(* Model of the chess-game analysis program (src/src/analysis.rs, the      *)
(* pipeline perform_game_data_analysis of src/src/main.rs, and             *)
(* distribute_data of src/src/data_distribution.rs).                       *)
(*                                                                         *)
(* A Game is modelled by the five fields the analysis reads: white, black, *)
(* result, white_rating_diff, black_rating_diff.  An Option<f32> is the    *)
(* empty sequence (None) or a one-element sequence (Some(v)).  Real values *)
(* produced by a division or by the 0.5 draw credit are exact rationals    *)
(* <<numerator, denominator>> in lowest terms.  A NodeIndex is the         *)
(* position of the node in the graph's node list, counted from 1.          *)
(***************************************************************************)
EXTENDS Integers, Sequences, FiniteSets, TLC

\* ------------------------------------------------------------------ bounds
\* Longest batch of the graph specification (Spec).
MaxGames == 3
\* Longest batch of the performance specification (SpecPerf).
MaxPerfGames == 2
\* Most update calls on one PlayerPerformance (SpecPlayer).
MaxUpdates == 5
\* Longest batch of the pipeline specification (SpecPipeline).
MaxPipelineGames == 2
\* Longest batch of the two-run specification (SpecRerun).
MaxRerunGames == 1
\* Most data lines given to distribute_data (SpecDistribute).
MaxRows == 4
\* Most output files given to distribute_data (SpecDistribute).
MaxOutputFiles == 3

\* ------------------------------------------------------------- input space
Players == {"P1", "P2", "P3"}
PerfPlayers == {"P1", "P2"}
\* "Normal" and "Time forfeit" are the strings track_player_performance
\* matches, "1-0" and "1/2-1/2" are among those calculate_mean_mode matches.
Results == {"Normal", "Time forfeit", "1/2-1/2", "1-0"}
None == <<>>
Some(v) == <<v>>
\* (white_rating_diff, black_rating_diff) of one game.
RatingDiffs == {<<Some(1), Some(-1)>>, <<Some(-1), Some(1)>>, <<None, None>>}

Game(w, b, r, wd, bd) ==
    [white |-> w, black |-> b, result |-> r,
     white_rating_diff |-> wd, black_rating_diff |-> bd]

\* The records of the graph specification: the tests' games, which set
\* white, black and result and leave the rest at Default::default().
GraphGames == {Game(w, b, "1-0", None, None) : w \in Players, b \in Players}
PerfGames ==
    {Game(w, b, r, d[1], d[2]) :
        w \in PerfPlayers, b \in PerfPlayers, r \in Results, d \in RatingDiffs}

RECURSIVE SeqsUpTo(_, _)
SeqsUpTo(S, n) ==
    IF n = 0 THEN {<<>>}
    ELSE LET shorter == SeqsUpTo(S, n - 1)
         IN  shorter \cup {Append(s, x) : s \in {t \in shorter : Len(t) = n - 1}, x \in S}

\* ------------------------------------------------------------- arithmetic
unwrap_or(opt, default) == IF opt = None THEN default ELSE opt[1]

Abs(x) == IF x < 0 THEN -x ELSE x

RECURSIVE GCD(_, _)
GCD(a, b) == IF b = 0 THEN a ELSE GCD(b, a % b)

\* The real number n/d (d > 0), in lowest terms.
Rat(n, d) == LET g == GCD(Abs(n), d) IN <<n \div g, d \div g>>
Zero == Rat(0, 1)
Half == Rat(1, 2)
One == Rat(1, 1)
RatAdd(a, b) == Rat(a[1] * b[2] + b[1] * a[2], a[2] * b[2])
RatLeq(a, b) == a[1] * b[2] <= b[1] * a[2]

\* ------------------------------------------------------------------ graph
EmptyGraph == [nodes |-> <<>>, edges |-> <<>>]
add_node(g, weight) == [g EXCEPT !.nodes = Append(@, weight)]
\* add_edge changed to keep one edge per ordered pair of nodes.
add_edge_coalescing(g, a, b, weight) ==
    IF \E e \in DOMAIN g.edges : g.edges[e][1] = a /\ g.edges[e][2] = b
    THEN g
    ELSE [g EXCEPT !.edges = Append(@, <<a, b, weight>>)]
add_edge(g, a, b, weight) == [g EXCEPT !.edges = Append(@, <<a, b, weight>>)]
node_count(g) == Len(g.nodes)
edge_count(g) == Len(g.edges)
node_indices(g) == 1 .. Len(g.nodes)

\* entry(key).or_insert_with(|| graph.add_node(key)): the graph and the
\* index map after the lookup.
EntryOrAddNode(st, key) ==
    IF key \in DOMAIN st.player_indices
    THEN st
    ELSE LET g == add_node(st.graph, key)
         IN  [graph |-> g,
              player_indices |-> st.player_indices @@ (key :> node_count(g))]

BuildStep(st, game) ==
    LET s1 == EntryOrAddNode(st, game.white)
        white_index == s1.player_indices[game.white]
        s2 == EntryOrAddNode(s1, game.black)
        black_index == s2.player_indices[game.black]
    IN  [s2 EXCEPT !.graph = add_edge(s2.graph, white_index, black_index, 1)]

RECURSIVE BuildLoop(_, _, _)
BuildLoop(gs, i, st) ==
    IF i > Len(gs) THEN st ELSE BuildLoop(gs, i + 1, BuildStep(st, gs[i]))

\* build_graph changed to start from a graph that already holds a node.
build_graph_seeded(gs) ==
    BuildLoop(gs, 1, [graph |-> add_node(EmptyGraph, ""), player_indices |-> <<>>]).graph

build_graph(gs) ==
    BuildLoop(gs, 1, [graph |-> EmptyGraph, player_indices |-> <<>>]).graph

\* neighbors_directed(node, dir).count(): one neighbour per edge, so that
\* parallel edges and self-loops count once per edge in each direction.
\* InDegree changed to count the distinct neighbours instead of the edges.
InDegreeNeighbours(g, node) ==
    Cardinality({g.edges[e][1] : e \in {x \in DOMAIN g.edges : g.edges[x][2] = node}})
InDegree(g, node) == Cardinality({e \in DOMAIN g.edges : g.edges[e][2] = node})
OutDegree(g, node) == Cardinality({e \in DOMAIN g.edges : g.edges[e][1] = node})

calculate_in_out_degree_centrality(g) ==
    [node \in node_indices(g) |-> <<InDegree(g, node), OutDegree(g, node)>>]

\* ------------------------------------------------------- PlayerPerformance
DefaultPlayerPerformance ==
    [games_played |-> 0, games_won |-> 0, games_lost |-> 0, games_drawn |-> 0,
     total_rating_change |-> 0, win_rate |-> Zero]

\* calculate_win_rate changed to divide by the decided games only.
win_rate_of_decided(self) ==
    IF self.games_won + self.games_lost = 0
    THEN Zero
    ELSE Rat(self.games_won, self.games_won + self.games_lost)

calculate_win_rate(self) ==
    IF self.games_played = 0
    THEN Zero
    ELSE Rat(self.games_won, self.games_played)

\* Tally changed to lose the arm of the draw.
TallyWithoutDraw(self, result) ==
    CASE result = "1-0" -> [self EXCEPT !.games_won = @ + 1]
      [] result = "0-1" -> [self EXCEPT !.games_lost = @ + 1]
      [] OTHER -> self

\* The match of update: the tally the result string increments.
Tally(self, result) ==
    CASE result = "1-0" -> [self EXCEPT !.games_won = @ + 1]
      [] result = "0-1" -> [self EXCEPT !.games_lost = @ + 1]
      [] result = "1/2-1/2" -> [self EXCEPT !.games_drawn = @ + 1]
      [] OTHER -> self

update(self, result, rating_diff) ==
    LET counted == [self EXCEPT !.games_played = @ + 1,
                                !.total_rating_change = @ + rating_diff]
        tallied == Tally(counted, result)
    IN  [tallied EXCEPT !.win_rate = calculate_win_rate(tallied)]

\* --------------------------------------------------- track_player_performance
\* HashMap::entry(key).or_insert(default): the map after the lookup.
EntryOrInsert(map, key, default) ==
    IF key \in DOMAIN map THEN map ELSE map @@ (key :> default)

\* a.into_iter().chain(b.into_iter()).collect(): a later pair replaces an
\* earlier pair with the same key, so b's value wins.
ChainCollect(a, b) ==
    [k \in DOMAIN a \cup DOMAIN b |-> IF k \in DOMAIN b THEN b[k] ELSE a[k]]

Continue == <<>>

\* MatchResult changed to pass an unmatched result string on to update
\* instead of skipping the record.
MatchResultNoSkip(game) ==
    CASE game.result = "Normal" ->
            IF unwrap_or(game.white_rating_diff, 0) > 0 THEN <<"1-0", "0-1">>
            ELSE IF unwrap_or(game.black_rating_diff, 0) > 0 THEN <<"0-1", "1-0">>
            ELSE <<"1/2-1/2", "1/2-1/2">>
      [] game.result = "Time forfeit" ->
            IF unwrap_or(game.white_rating_diff, 0) > 0 THEN <<"1-0", "0-1">>
            ELSE <<"0-1", "1-0">>
      [] OTHER -> <<game.result, game.result>>

\* The match on game.result: (white_result, black_result), or Continue for
\* the arm that skips the record.
MatchResult(game) ==
    CASE game.result = "Normal" ->
            IF unwrap_or(game.white_rating_diff, 0) > 0 THEN <<"1-0", "0-1">>
            ELSE IF unwrap_or(game.black_rating_diff, 0) > 0 THEN <<"0-1", "1-0">>
            ELSE <<"1/2-1/2", "1/2-1/2">>
      [] game.result = "Time forfeit" ->
            IF unwrap_or(game.white_rating_diff, 0) > 0 THEN <<"1-0", "0-1">>
            ELSE <<"0-1", "1-0">>
      [] OTHER -> Continue

TrackStep(st, game) ==
    LET res == MatchResult(game)
    IN  IF res = Continue THEN st
        ELSE LET w == EntryOrInsert(st.white_performance, game.white,
                                    DefaultPlayerPerformance)
                 b == EntryOrInsert(st.black_performance, game.black,
                                    DefaultPlayerPerformance)
             IN  [white_performance |->
                      [w EXCEPT ![game.white] =
                          update(@, res[1], unwrap_or(game.white_rating_diff, 0))],
                  black_performance |->
                      [b EXCEPT ![game.black] =
                          update(@, res[2], unwrap_or(game.black_rating_diff, 0))]]

RECURSIVE TrackLoop(_, _, _)
TrackLoop(gs, i, st) ==
    IF i > Len(gs) THEN st ELSE TrackLoop(gs, i + 1, TrackStep(st, gs[i]))

track_player_performance(gs) ==
    LET st == TrackLoop(gs, 1, [white_performance |-> <<>>, black_performance |-> <<>>])
    IN  ChainCollect(st.white_performance, st.black_performance)

\* ------------------------------------------------------- calculate_mean_mode
\* An accumulator (wins, draws, rating_diff_sum, game_count).
DefaultMetrics == <<0, Zero, 0, 0>>

MeanModeStep(st, game) ==
    LET w0 == EntryOrInsert(st.white_metrics, game.white, DefaultMetrics)
        b0 == EntryOrInsert(st.black_metrics, game.black, DefaultMetrics)
        w1 == CASE game.result = "1-0" -> [w0 EXCEPT ![game.white][1] = @ + 1]
                [] game.result = "1/2-1/2" ->
                       [w0 EXCEPT ![game.white][2] = RatAdd(@, Half)]
                [] OTHER -> w0
        b1 == CASE game.result = "0-1" -> [b0 EXCEPT ![game.black][1] = @ + 1]
                [] game.result = "1/2-1/2" ->
                       [b0 EXCEPT ![game.black][2] = RatAdd(@, Half)]
                [] OTHER -> b0
    IN  [white_metrics |->
             [w1 EXCEPT ![game.white][3] = @ + unwrap_or(game.white_rating_diff, 0),
                        ![game.white][4] = @ + 1],
         black_metrics |->
             [b1 EXCEPT ![game.black][3] = @ + unwrap_or(game.black_rating_diff, 0),
                        ![game.black][4] = @ + 1]]

RECURSIVE MeanModeLoop(_, _, _)
MeanModeLoop(gs, i, st) ==
    IF i > Len(gs) THEN st ELSE MeanModeLoop(gs, i + 1, MeanModeStep(st, gs[i]))

\* (win_rate, draws, mean_rating_diff, game_count) of one accumulator.
Finalize(m) == <<Rat(m[1], m[4]), m[2], Rat(m[3], m[4]), m[4]>>

calculate_mean_mode(gs) ==
    LET st == MeanModeLoop(gs, 1, [white_metrics |-> <<>>, black_metrics |-> <<>>])
        chained == ChainCollect(st.white_metrics, st.black_metrics)
    IN  [player \in DOMAIN chained |-> Finalize(chained[player])]

\* ------------------------------------------------- library centrality scores
\* The value a graph library computes for one node under one metric.  Its
\* arithmetic is outside this model: the value is a token naming the metric
\* and the node, equal for equal metric and node.
LibraryScore(metric, node) == <<metric, node>>

\* calculate_pagerank changed to register the source of an edge only.
calculate_pagerank_sources(g) ==
    LET registered == {g.edges[e][1] : e \in DOMAIN g.edges}
    IN  [node \in {i \in node_indices(g) : i \in registered} |->
            LibraryScore("pagerank", node)]

\* Pagerank::add_edge registers the two ends of every edge; nodes() lists the
\* registered nodes, each looked up again among the graph's node indices.
calculate_pagerank(g) ==
    LET registered == {g.edges[e][1] : e \in DOMAIN g.edges}
                          \cup {g.edges[e][2] : e \in DOMAIN g.edges}
    IN  [node \in {i \in node_indices(g) : i \in registered} |->
            LibraryScore("pagerank", node)]

\* betweenness_centrality and closeness_centrality return one Some(score) per
\* node index; the zip with node_indices keeps them all.
calculate_betweenness_centrality(g) ==
    [node \in node_indices(g) |-> LibraryScore("betweenness", node)]

calculate_closeness_centrality(g) ==
    [node \in node_indices(g) |-> LibraryScore("closeness", node)]

calculate_weighted_centrality(g) ==
    <<[node \in node_indices(g) |-> LibraryScore("betweenness", node)],
      [node \in node_indices(g) |-> LibraryScore("closeness", node)]>>

\* ------------------------------------------------------------ export files
\* A CSV file is the sequence of its records, a record the sequence of its
\* fields, a field a string.  serialize writes a String as it is and a number
\* as its text.
Field(v) == ToString(v)

\* The orders in which a HashMap with key set S can be iterated.
Orders(S) ==
    {o \in [1 .. Cardinality(S) -> S] : \A i, j \in DOMAIN o : o[i] = o[j] => i = j}

\* OpenOptions::new().write(true).create(true).open(path) followed by the
\* writes: the file is neither truncated nor appended to, the new records
\* replace the file's content from its start and what lay beyond them stays.
\* (Positions are counted in records.)
Overwrite(old, records) == records \o SubSeq(old, Len(records) + 1, Len(old))

export_centrality_data(centrality_scores, g, old, order) ==
    Overwrite(old,
        [i \in DOMAIN order |->
            <<g.nodes[order[i]], Field(centrality_scores[order[i]])>>])

export_performance(perf, old, order) ==
    Overwrite(old,
        [i \in DOMAIN order |->
            LET stats == perf[order[i]]
            IN  <<order[i],
                  Field(stats.games_played),
                  Field(stats.games_won),
                  Field(stats.games_lost),
                  Field(stats.games_drawn),
                  Field(stats.total_rating_change),
                  Field(stats.win_rate)>>])

export_in_out_degree_centrality(in_out, g, old, order) ==
    Overwrite(old,
        [i \in DOMAIN order |->
            <<g.nodes[order[i]], Field(in_out[order[i]][1]), Field(in_out[order[i]][2])>>])

export_weighted_centrality(weighted_betweenness, weighted_closeness, g, old, order) ==
    Overwrite(old,
        [i \in DOMAIN order |->
            <<g.nodes[order[i]],
              Field(weighted_betweenness[order[i]]),
              Field(weighted_closeness[order[i]])>>])

export_mean_mode_metrics(metrics, old, order) ==
    Overwrite(old,
        [i \in DOMAIN order |->
            LET m == metrics[order[i]]
            IN  <<order[i], Field(m[1]), Field(m[2]), Field(m[3]), Field(m[4])>>])

\* ------------------------------------------------------------------- merge
\* csv::Reader::from_path(path).records(): the reader is built with its
\* default has_headers(true), so the first record of the file is taken as the
\* header row and records() yields the records after it.
records(file) == IF file = <<>> THEN <<>> ELSE Tail(file)

OutputHeader ==
    <<"Analysis Type", "Player", "Score", "Win Rate", "Draws", "Mean Rating Diff",
      "Game Count">>

\* ScoreRow changed to write only the fields a score row has values for.
ScoreRowUnpadded(tag, record) == <<tag, record[1], record[2]>>
ScoreRow(tag, record) == <<tag, record[1], record[2], "", "", "", "">>
PerformanceRow(record) ==
    <<"Player Performance", record[1], "", record[7], record[4], record[6], record[2]>>
MeanModeRow(record) ==
    <<"Mean/Mode Metrics", record[1], "", record[2], record[3], record[4], record[5]>>

\* One loop over a file of scores: one row per record.
ScoreRows(tag, recs) == [i \in DOMAIN recs |-> ScoreRow(tag, recs[i])]

\* PairRows changed to write all rows of the first tag before the rows of
\* the second.
PairRowsByTag(tagA, tagB, recs) ==
    [i \in DOMAIN recs |-> ScoreRow(tagA, recs[i])]
        \o [i \in DOMAIN recs |-> ScoreRow(tagB, recs[i])]

\* One loop over a file of pairs: two rows per record, one after the other.
RECURSIVE PairRows(_, _, _)
PairRows(tagA, tagB, recs) ==
    IF recs = <<>> THEN <<>>
    ELSE <<ScoreRow(tagA, Head(recs)), ScoreRow(tagB, Head(recs))>>
             \o PairRows(tagA, tagB, Tail(recs))

\* The combined output file written from the seven export files.
MergedOutput(fs) ==
    <<OutputHeader>>
        \o ScoreRows("PageRank", records(fs.pr_scores))
        \o ScoreRows("Betweenness Centrality", records(fs.btw_scores))
        \o ScoreRows("Closeness Centrality", records(fs.cls_scores))
        \o [i \in DOMAIN records(fs.player_perf) |->
               PerformanceRow(records(fs.player_perf)[i])]
        \o PairRows("In-Degree", "Out-Degree", records(fs.in_out_degree))
        \o PairRows("Weighted Betweenness", "Weighted Closeness",
                    records(fs.weighted_centrality))
        \o [i \in DOMAIN records(fs.mean_mode_metrics) |->
               MeanModeRow(records(fs.mean_mode_metrics)[i])]

\* The ./out directory before the first export: no file has content.
NoFiles ==
    [pr_scores |-> <<>>, btw_scores |-> <<>>, cls_scores |-> <<>>,
     player_perf |-> <<>>, in_out_degree |-> <<>>, weighted_centrality |-> <<>>,
     mean_mode_metrics |-> <<>>]
\* The combined output file before it is first written.
NoOutput == <<>>

\* --------------------------------------------------------- distribute_data
\* A line of the combined data is the sequence of its comma-separated fields,
\* the header line the sequence of its column names.
specific_columns ==
    {"GameID", "Event", "White", "WhiteElo", "WhiteRatingDiff",
     "White_tosViolation", "White_playTime_total", "White_count_all",
     "Black", "BlackElo", "BlackRatingDiff", "Black_tosViolation",
     "Black_playTime_total", "Black_count_all", "Moves", "TotalMoves",
     "ECO", "Opening", "TimeControl", "Result"}

\* The positions of the header's columns that are among specific_columns, in
\* header order.
RECURSIVE column_indices(_, _)
column_indices(headers, idx) ==
    IF idx > Len(headers) THEN <<>>
    ELSE (IF headers[idx] \in specific_columns THEN <<idx>> ELSE <<>>)
             \o column_indices(headers, idx + 1)

\* The fields of a line at the selected positions, joined again into a line.
SelectColumns(row_data, indices) == [j \in DOMAIN indices |-> row_data[indices[j]]]

\* rows_to_write changed to leave the remaining rows out.
rows_to_write_even(n, num_output_files, file_index) == n \div num_output_files

\* The number of rows written to the file at file_index (counted from 0).
rows_to_write(n, num_output_files, file_index) ==
    (n \div num_output_files)
        + (IF file_index < n % num_output_files THEN 1 ELSE 0)

\* The rows that combined_data.get(row_index) yields for the next count
\* values of row_index (counted from 0): the rows that exist.
RowsFrom(combined_data, row_index, count) ==
    SubSeq(combined_data, row_index + 1,
           IF row_index + count < Len(combined_data) THEN row_index + count
           ELSE Len(combined_data))

\* The loop over the writers: each file, already holding the header line,
\* receives its rows from row_index on.
RECURSIVE WriteLoop(_, _, _, _, _, _)
WriteLoop(combined_data, indices, writers, file_index, row_index, selected_headers) ==
    IF file_index = writers THEN <<>>
    ELSE LET count == rows_to_write(Len(combined_data), writers, file_index)
             rows == RowsFrom(combined_data, row_index, count)
         IN  <<<<selected_headers>>
                 \o [j \in DOMAIN rows |-> SelectColumns(rows[j], indices)]>>
             \o WriteLoop(combined_data, indices, writers, file_index + 1,
                          row_index + count, selected_headers)

\* What a call leaves: how it returned and the content of the output files.
\* Without data it returns before any file is created; without output files
\* the division by writers.len() panics.
distribute_data(combined_data, header, output_files, old) ==
    IF combined_data = <<>> THEN [returned |-> "Ok", files |-> old]
    ELSE LET indices == column_indices(header, 1)
             writers == Len(output_files)
         IN  IF writers = 0 THEN [returned |-> "panic", files |-> <<>>]
             ELSE [returned |-> "Ok",
                   files |-> WriteLoop(combined_data, indices, writers, 0, 0,
                                       SelectColumns(header, indices))]

\* ------------------------------------------------------------------- state
VARIABLES
    games,                      \* the batch of Game records under analysis
    pc,                         \* position in the analysis of the batch
    graph,                      \* build_graph's result
    pagerank_scores,            \* calculate_pagerank's result
    betweenness_centrality,     \* calculate_betweenness_centrality's result
    closeness_centrality,       \* calculate_closeness_centrality's result
    in_out_degree_centrality,   \* calculate_in_out_degree_centrality's result
    weighted_centrality,        \* calculate_weighted_centrality's result
    performance,                \* track_player_performance's result
    mean_mode_metrics,          \* calculate_mean_mode's result
    player,                     \* one PlayerPerformance value under update
    files,                      \* the export files under ./out
    output,                     \* the combined output file
    prev_output,                \* the combined output file of the run before
    combined_data,              \* the data lines given to distribute_data
    header,                     \* the header line given to distribute_data
    output_files,               \* the output paths given to distribute_data
    subset_files,               \* the content of the files at those paths
    returned                    \* how the call of distribute_data ended

graphVars == <<graph, pagerank_scores, betweenness_centrality, closeness_centrality,
               in_out_degree_centrality, weighted_centrality>>
perfVars == <<performance, mean_mode_metrics>>
pipeVars == <<files, output, prev_output>>
distVars == <<combined_data, header, output_files, subset_files, returned>>
vars == <<games, pc, graphVars, perfVars, player, pipeVars, distVars>>

\* No call of distribute_data made yet.
NotDistributed ==
    /\ combined_data = <<>>
    /\ header = <<>>
    /\ output_files = <<>>
    /\ subset_files = <<>>
    /\ returned = "pending"

\* Nothing analysed yet.
NotAnalysed ==
    /\ pc = "start"
    /\ graph = EmptyGraph
    /\ pagerank_scores = <<>>
    /\ betweenness_centrality = <<>>
    /\ closeness_centrality = <<>>
    /\ in_out_degree_centrality = <<>>
    /\ weighted_centrality = <<<<>>, <<>>>>
    /\ performance = <<>>
    /\ mean_mode_metrics = <<>>
    /\ player = DefaultPlayerPerformance
    /\ files = NoFiles
    /\ output = NoOutput
    /\ prev_output = NoOutput

\* Nothing computed yet.
Blank == NotAnalysed /\ NotDistributed

\* ------------------------------------------------ graph analyses of a batch
Init ==
    /\ games \in SeqsUpTo(GraphGames, MaxGames)
    /\ Blank

BuildGraph ==
    /\ pc = "start"
    /\ graph' = build_graph(games)
    /\ pc' = "graph"
    /\ UNCHANGED <<games, pagerank_scores, betweenness_centrality, closeness_centrality,
                   in_out_degree_centrality, weighted_centrality, perfVars, player, pipeVars, distVars>>

CalculatePagerank ==
    /\ pc = "graph"
    /\ pagerank_scores' = calculate_pagerank(graph)
    /\ pc' = "pagerank"
    /\ UNCHANGED <<games, graph, betweenness_centrality, closeness_centrality,
                   in_out_degree_centrality, weighted_centrality, perfVars, player, pipeVars, distVars>>

CalculateBetweenness ==
    /\ pc = "pagerank"
    /\ betweenness_centrality' = calculate_betweenness_centrality(graph)
    /\ pc' = "betweenness"
    /\ UNCHANGED <<games, graph, pagerank_scores, closeness_centrality,
                   in_out_degree_centrality, weighted_centrality, perfVars, player, pipeVars, distVars>>

CalculateCloseness ==
    /\ pc = "betweenness"
    /\ closeness_centrality' = calculate_closeness_centrality(graph)
    /\ pc' = "closeness"
    /\ UNCHANGED <<games, graph, pagerank_scores, betweenness_centrality,
                   in_out_degree_centrality, weighted_centrality, perfVars, player, pipeVars, distVars>>

CalculateInOutDegree ==
    /\ pc = "closeness"
    /\ in_out_degree_centrality' = calculate_in_out_degree_centrality(graph)
    /\ pc' = "degree"
    /\ UNCHANGED <<games, graph, pagerank_scores, betweenness_centrality,
                   closeness_centrality, weighted_centrality, perfVars, player, pipeVars, distVars>>

CalculateWeighted ==
    /\ pc = "degree"
    /\ weighted_centrality' = calculate_weighted_centrality(graph)
    /\ pc' = "done"
    /\ UNCHANGED <<games, graph, pagerank_scores, betweenness_centrality,
                   closeness_centrality, in_out_degree_centrality, perfVars, player, pipeVars, distVars>>

Next ==
    \/ BuildGraph
    \/ CalculatePagerank
    \/ CalculateBetweenness
    \/ CalculateCloseness
    \/ CalculateInOutDegree
    \/ CalculateWeighted

Spec == Init /\ [][Next]_vars

\* ------------------------------------------- performance analyses of a batch
InitPerf ==
    /\ games \in SeqsUpTo(PerfGames, MaxPerfGames)
    /\ Blank

TrackPlayerPerformance ==
    /\ pc = "start"
    /\ performance' = track_player_performance(games)
    /\ pc' = "tracked"
    /\ UNCHANGED <<games, graphVars, mean_mode_metrics, player, pipeVars, distVars>>

CalculateMeanMode ==
    /\ pc = "tracked"
    /\ mean_mode_metrics' = calculate_mean_mode(games)
    /\ pc' = "done"
    /\ UNCHANGED <<games, graphVars, performance, player, pipeVars, distVars>>

NextPerf ==
    \/ TrackPlayerPerformance
    \/ CalculateMeanMode

SpecPerf == InitPerf /\ [][NextPerf]_vars

\* ------------------------------------------ one PlayerPerformance under update
\* The result strings and rating differences update is called with here:
\* the three it matches and one it does not.
UpdateResults == {"1-0", "0-1", "1/2-1/2", "Normal"}
UpdateDiffs == {-1, 0, 1}

InitPlayer ==
    /\ games = <<>>
    /\ Blank

Update ==
    /\ player.games_played < MaxUpdates
    /\ \E result \in UpdateResults, rating_diff \in UpdateDiffs :
           player' = update(player, result, rating_diff)
    /\ UNCHANGED <<games, pc, graphVars, perfVars, pipeVars, distVars>>

NextPlayer == Update

SpecPlayer == InitPlayer /\ [][NextPlayer]_vars

\* ------------------------------------------------ perform_game_data_analysis
\* The rows of the input file of the pipeline specifications; a batch is the
\* file cut after some row.
PipelineInput ==
    <<Game("P1", "P2", "Normal", Some(1), Some(-1)),
      Game("P2", "P3", "1/2-1/2", None, None),
      Game("P2", "P1", "Time forfeit", Some(-1), Some(1)),
      Game("P1", "P2", "Normal", None, None)>>
FirstRows(n) == SubSeq(PipelineInput, 1, IF n < Len(PipelineInput) THEN n ELSE Len(PipelineInput))

InitPipeline ==
    /\ games \in {FirstRows(n) : n \in 0 .. MaxPipelineGames}
    /\ Blank

\* One call of perform_game_data_analysis on one input file holding the
\* batch: the analyses, the seven exports (each iterating its HashMap in some
\* order), and the merge into the output file (File::create: written anew).
PipelineRunOn(gs) ==
    /\ graph' = build_graph(gs)
    /\ pagerank_scores' = calculate_pagerank(graph')
    /\ betweenness_centrality' = calculate_betweenness_centrality(graph')
    /\ closeness_centrality' = calculate_closeness_centrality(graph')
    /\ performance' = track_player_performance(gs)
    /\ in_out_degree_centrality' = calculate_in_out_degree_centrality(graph')
    /\ weighted_centrality' = calculate_weighted_centrality(graph')
    /\ mean_mode_metrics' = calculate_mean_mode(gs)
    /\ \E o_pr \in Orders(DOMAIN pagerank_scores'),
          o_btw \in Orders(DOMAIN betweenness_centrality'),
          o_cls \in Orders(DOMAIN closeness_centrality'),
          o_perf \in Orders(DOMAIN performance'),
          o_deg \in Orders(DOMAIN in_out_degree_centrality'),
          o_wgt \in Orders(DOMAIN weighted_centrality'[1]),
          o_mm \in Orders(DOMAIN mean_mode_metrics') :
           files' =
               [pr_scores |->
                    export_centrality_data(pagerank_scores', graph',
                        files.pr_scores, o_pr),
                btw_scores |->
                    export_centrality_data(betweenness_centrality', graph',
                        files.btw_scores, o_btw),
                cls_scores |->
                    export_centrality_data(closeness_centrality', graph',
                        files.cls_scores, o_cls),
                player_perf |->
                    export_performance(performance', files.player_perf, o_perf),
                in_out_degree |->
                    export_in_out_degree_centrality(in_out_degree_centrality', graph',
                        files.in_out_degree, o_deg),
                weighted_centrality |->
                    export_weighted_centrality(weighted_centrality'[1],
                        weighted_centrality'[2], graph',
                        files.weighted_centrality, o_wgt),
                mean_mode_metrics |->
                    export_mean_mode_metrics(mean_mode_metrics',
                        files.mean_mode_metrics, o_mm)]
    /\ output' = MergedOutput(files')

PipelineRun == PipelineRunOn(games)

RunPipeline ==
    /\ pc = "start"
    /\ PipelineRun
    /\ pc' = "merged"
    /\ UNCHANGED <<games, player, prev_output, distVars>>

NextPipeline == RunPipeline

SpecPipeline == InitPipeline /\ [][NextPipeline]_vars

\* ------------------------------------- the pipeline run twice on one batch
InitRerun ==
    /\ games \in {FirstRows(n) : n \in 0 .. MaxRerunGames}
    /\ Blank

\* The program run a second time on the same input, the output file of the
\* first run kept aside for comparison.
RunPipelineAgain ==
    /\ pc = "merged"
    /\ PipelineRun
    /\ pc' = "rerun"
    /\ prev_output' = output
    /\ UNCHANGED <<games, player, distVars>>

NextRerun ==
    \/ RunPipeline
    \/ RunPipelineAgain

SpecRerun == InitRerun /\ [][NextRerun]_vars

\* ------------------------- the pipeline run again and again on changing input
\* The contents the input file takes from one run to the next: a game of two
\* participants, or a game of one participant against itself.
ExportBatches ==
    {<<Game("P1", "P2", "Normal", Some(1), Some(-1))>>,
     <<Game("P1", "P1", "Normal", None, None)>>,
     <<Game("P2", "P2", "Normal", None, None)>>}

InitExport ==
    /\ games = <<>>
    /\ Blank

\* One run of the program on the input file as it is now; the files under
\* ./out are those the runs before have left.
AnalyseInput ==
    /\ pc \in {"start", "merged"}
    /\ \E batch \in ExportBatches :
           /\ games' = batch
           /\ PipelineRunOn(batch)
    /\ pc' = "merged"
    /\ UNCHANGED <<player, prev_output, distVars>>

NextExport == AnalyseInput

SpecExport == InitExport /\ [][NextExport]_vars

\* --------------------------------------------------- one call of distribute_data
\* The header lines of the calls: columns that are selected and columns that
\* are not, in different positions.
HeaderLines == {<<"GameID", "Site">>, <<"Site", "Result">>, <<"White", "Black">>}
FieldValues == {"a", "b"}
\* The data lines under a header line: a field for every column.
LinesUnder(h) == [DOMAIN h -> FieldValues]
OutputPaths ==
    <<"subset_data_1.csv", "subset_data_2.csv", "subset_data_3.csv",
      "subset_data_4.csv", "subset_data_5.csv">>

InitDistribute ==
    /\ games = <<>>
    /\ NotAnalysed
    /\ header \in HeaderLines
    /\ combined_data \in SeqsUpTo(LinesUnder(header), MaxRows)
    /\ output_files \in {SubSeq(OutputPaths, 1, k) : k \in 0 .. MaxOutputFiles}
    /\ subset_files = <<>>
    /\ returned = "pending"

DistributeData ==
    /\ returned = "pending"
    /\ LET call == distribute_data(combined_data, header, output_files, subset_files)
       IN  /\ returned' = call.returned
           /\ subset_files' = call.files
    /\ UNCHANGED <<games, pc, graphVars, perfVars, player, pipeVars,
                   combined_data, header, output_files>>

NextDistribute == DistributeData

SpecDistribute == InitDistribute /\ [][NextDistribute]_vars

\* ================================================================== claims
\* Vocabulary of the claims, stated over the batch itself.
Participants(gs) ==
    {gs[i].white : i \in DOMAIN gs} \cup {gs[i].black : i \in DOMAIN gs}
AsWhite(gs, p) == {i \in DOMAIN gs : gs[i].white = p}
AsBlack(gs, p) == {i \in DOMAIN gs : gs[i].black = p}
Appears(gs, p) == AsWhite(gs, p) \cup AsBlack(gs, p)
\* The outcome strings the Performance Tracker recognizes.
Recognized(game) == game.result \in {"Normal", "Time forfeit"}
RecognizedIn(gs, S) == {i \in S : Recognized(gs[i])}
NoSelfPlay(gs) == \A i \in DOMAIN gs : gs[i].white # gs[i].black
\* Nobody is white in one record and black in another (or the same) record.
NoRoleOverlap(gs) == \A p \in Participants(gs) : AsWhite(gs, p) = {} \/ AsBlack(gs, p) = {}
GraphBuilt == pc \in {"graph", "pagerank", "betweenness", "closeness", "degree", "done"}
Tracked == pc \in {"tracked", "done"}

\* C1: the built graph has one node per distinct participant identity of the
\* batch and one edge per record; for every ordered pair of participants the
\* number of edges white -> black equals the number of records of that pair
\* (repeated games are separate edges).
C1_GraphCounts ==
    GraphBuilt =>
        /\ node_count(graph) = Cardinality(Participants(games))
        /\ {graph.nodes[n] : n \in node_indices(graph)} = Participants(games)
        /\ edge_count(graph) = Len(games)
        /\ \A a \in node_indices(graph), b \in node_indices(graph) :
               Cardinality({e \in DOMAIN graph.edges :
                               graph.edges[e][1] = a /\ graph.edges[e][2] = b})
                 = Cardinality({i \in DOMAIN games :
                                   /\ games[i].white = graph.nodes[a]
                                   /\ games[i].black = graph.nodes[b]})

\* C1 witness: a graph built from a batch that repeats a game between the
\* same two distinct participants.
C1_Witness ==
    /\ pc = "graph"
    /\ Len(games) = 3
    /\ games[1] = games[2]
    /\ games[1].white # games[1].black
    /\ edge_count(graph) = 3

RECURSIVE DegreeSum(_, _)
DegreeSum(deg, n) ==
    IF n = 0 THEN 0 ELSE DegreeSum(deg, n - 1) + deg[n][1] + deg[n][2]

\* C4: the degree map has exactly one entry per node; the in-degree of a node
\* is the number of records in which its participant is black, the out-degree
\* the number in which it is white; all degrees sum to twice the edge count.
C4_Degrees ==
    pc \in {"degree", "done"} =>
        /\ DOMAIN in_out_degree_centrality = node_indices(graph)
        /\ \A n \in node_indices(graph) :
               /\ in_out_degree_centrality[n][1]
                      = Cardinality(AsBlack(games, graph.nodes[n]))
               /\ in_out_degree_centrality[n][2]
                      = Cardinality(AsWhite(games, graph.nodes[n]))
        /\ DegreeSum(in_out_degree_centrality, node_count(graph)) = 2 * edge_count(graph)

\* C4 witness: degrees computed for a batch with a repeated game and a game
\* of a participant against itself.
C4_Witness ==
    /\ pc = "degree"
    /\ Len(games) = 3
    /\ games[1] = games[2]
    /\ games[1].white # games[1].black
    /\ games[3].white = games[3].black
    /\ games[3].white = games[1].white
    /\ in_out_degree_centrality[1] = <<1, 3>>

RECURSIVE OwnDeltaSum(_, _, _)
OwnDeltaSum(gs, n, p) ==
    IF n = 0 THEN 0
    ELSE OwnDeltaSum(gs, n - 1, p)
         + (IF Recognized(gs[n]) /\ gs[n].white = p
            THEN unwrap_or(gs[n].white_rating_diff, 0) ELSE 0)
         + (IF Recognized(gs[n]) /\ gs[n].black = p
            THEN unwrap_or(gs[n].black_rating_diff, 0) ELSE 0)

\* The number of recognized games of p, in both roles, whose own-side result
\* is r.
OwnResults(gs, p, r) ==
    Cardinality({i \in RecognizedIn(gs, AsWhite(gs, p)) : MatchResult(gs[i])[1] = r})
    + Cardinality({i \in RecognizedIn(gs, AsBlack(gs, p)) : MatchResult(gs[i])[2] = r})

\* C2: each participant's record aggregates the participant's recognized
\* games in both roles: the counts add the games as white and the games as
\* black, total_rating_change sums the own-side deltas of all of them.
\* (Stated for batches in which nobody plays against themselves.)
C2_AggregatesBothRoles ==
    (Tracked /\ NoSelfPlay(games)) =>
        \A p \in DOMAIN performance :
            /\ performance[p].games_played
                   = Cardinality(RecognizedIn(games, AsWhite(games, p)))
                     + Cardinality(RecognizedIn(games, AsBlack(games, p)))
            /\ performance[p].games_won = OwnResults(games, p, "1-0")
            /\ performance[p].games_lost = OwnResults(games, p, "0-1")
            /\ performance[p].games_drawn = OwnResults(games, p, "1/2-1/2")
            /\ performance[p].total_rating_change = OwnDeltaSum(games, Len(games), p)

\* C3: the game_count of every participant in the mean/mode map is the
\* number of records in which the participant appears as white or as black.
\* (Stated for batches in which nobody plays against themselves.)
C3_GameCount ==
    (pc = "done" /\ NoSelfPlay(games)) =>
        \A p \in DOMAIN mean_mode_metrics :
            mean_mode_metrics[p][4] = Cardinality(Appears(games, p))

\* C5 (as claimed): games_played counts every record in which the participant
\* appears, recognized outcome or not.  (Stated for batches in which nobody
\* appears in both roles.)
C5_CountsEveryRecord ==
    (Tracked /\ NoRoleOverlap(games)) =>
        \A p \in Participants(games) :
            /\ p \in DOMAIN performance
            /\ performance[p].games_played = Cardinality(Appears(games, p))

OnlyRecognized(gs) == SelectSeq(gs, Recognized)

\* C5 (amended): a record with an unrecognized outcome is skipped entirely:
\* it counts toward nobody's games_played, so games_played never exceeds the
\* number of recognized-outcome records of the participant, a participant
\* without recognized-outcome record has no entry, and the map is the one
\* returned for the batch without the unrecognized records.
C5_SkipsUnrecognized ==
    Tracked =>
        /\ \A p \in DOMAIN performance :
               /\ performance[p].games_played >= 1
               /\ performance[p].games_played
                      <= Cardinality(RecognizedIn(games, Appears(games, p)))
        /\ \A p \in Participants(games) :
               RecognizedIn(games, Appears(games, p)) = {} => p \notin DOMAIN performance
        /\ performance = track_player_performance(OnlyRecognized(games))

\* C5 witness: a tracked batch in which a participant has one unrecognized
\* and one recognized record, and games_played 1.
C5_Witness ==
    /\ pc = "tracked"
    /\ Len(games) = 2
    /\ ~Recognized(games[1])
    /\ Recognized(games[2])
    /\ games[1].white = games[2].white
    /\ games[2].white # games[2].black
    /\ performance[games[2].white].games_played = 1

\* C6: every record of a participant all of whose games have a recognized
\* outcome satisfies games_won + games_lost + games_drawn = games_played.
C6_TalliesSumToPlayed ==
    Tracked =>
        \A p \in DOMAIN performance :
            (\A i \in Appears(games, p) : Recognized(games[i])) =>
                performance[p].games_won + performance[p].games_lost
                    + performance[p].games_drawn = performance[p].games_played

\* C6 witness: a participant with two recognized games as black, one drawn
\* and one lost.
C6_Witness ==
    /\ pc = "tracked"
    /\ \E p \in DOMAIN performance :
           /\ \A i \in Appears(games, p) : Recognized(games[i])
           /\ performance[p].games_played = 2
           /\ performance[p].games_drawn = 1
           /\ performance[p].games_lost = 1

InUnitInterval(r) == RatLeq(Zero, r) /\ RatLeq(r, One)

\* C7 (as claimed): win_rate lies in [0,1] and is 0.0 exactly when
\* games_played is 0.
C7_ZeroIffNoGames ==
    /\ InUnitInterval(player.win_rate)
    /\ (player.win_rate = Zero <=> player.games_played = 0)

\* C7 (amended): win_rate lies in [0,1], equals games_won / games_played once
\* a game is played, and is 0.0 exactly when games_won is 0 (so also when
\* games_played is 0).
C7_ZeroIffNoWins ==
    /\ InUnitInterval(player.win_rate)
    /\ (player.win_rate = Zero <=> player.games_won = 0)
    /\ (player.games_played = 0 => player.win_rate = Zero)
    /\ (player.games_played > 0 =>
            player.win_rate[1] * player.games_played
                = player.games_won * player.win_rate[2])

\* C7 witness: a PlayerPerformance after two updates, a loss and a draw: it
\* has played, has never won, and its win_rate is 0.0.
C7_Witness ==
    /\ player.games_played = 2
    /\ player.games_won = 0
    /\ player.games_lost = 1
    /\ player.games_drawn = 1
    /\ player.win_rate = Zero

DrawnOf(p) == IF p \in DOMAIN performance THEN performance[p].games_drawn ELSE 0
DrawCreditOf(p) == IF p \in DOMAIN mean_mode_metrics THEN mean_mode_metrics[p][2] ELSE Zero

\* C8: both components recognize the same records as draws: per participant
\* the mean/mode draw credit is 0.5 for each game the tracker counted in
\* games_drawn.  (Stated for batches in which nobody appears in both roles.)
C8_SameDraws ==
    (pc = "done" /\ NoRoleOverlap(games)) =>
        \A p \in Participants(games) : DrawCreditOf(p) = Rat(DrawnOf(p), 2)

\* C9: the pipeline run twice on the same batch writes the same output file,
\* row for row.
C9_SameOutputTwice ==
    pc = "rerun" => output = prev_output

\* The data rows of the output file are the rows after the header row.
DataRows == 2 .. Len(output)
TypeRank(tag) ==
    CASE tag = "PageRank" -> 1
      [] tag = "Betweenness Centrality" -> 2
      [] tag = "Closeness Centrality" -> 3
      [] tag = "Player Performance" -> 4
      [] tag = "In-Degree" -> 5
      [] tag = "Out-Degree" -> 6
      [] tag = "Weighted Betweenness" -> 7
      [] tag = "Weighted Closeness" -> 8
      [] tag = "Mean/Mode Metrics" -> 9
      [] OTHER -> 0

\* C10 (as claimed): every row of an earlier analysis type precedes every row
\* of a later type, the nine types taken in the claimed sequence.
C10_GroupedByType ==
    pc = "merged" =>
        \A i \in DataRows, j \in DataRows :
            i < j => TypeRank(output[i][1]) <= TypeRank(output[j][1])

\* The result each analysis type is read from: the two degree types share a
\* result, and so do the two weighted types.
GroupRank(tag) ==
    CASE tag \in {"In-Degree", "Out-Degree"} -> 5
      [] tag \in {"Weighted Betweenness", "Weighted Closeness"} -> 7
      [] OTHER -> TypeRank(tag)

\* Row i carries tagA and the next row carries tagB for the same participant.
PairAt(i, tagA, tagB) ==
    /\ output[i][1] = tagA
    /\ i + 1 \in DataRows
    /\ output[i + 1][1] = tagB
    /\ output[i + 1][2] = output[i][2]

\* C10 (amended): the rows are grouped by result in the sequence PageRank,
\* betweenness, closeness, performance, degree, weighted, mean/mode; inside
\* the degree group each participant's In-Degree row is directly followed by
\* its Out-Degree row, and inside the weighted group each Weighted
\* Betweenness row by the participant's Weighted Closeness row.
C10_GroupedByResult ==
    pc = "merged" =>
        /\ output[1] = OutputHeader
        /\ \A i \in DataRows : TypeRank(output[i][1]) # 0
        /\ \A i \in DataRows :
               i + 1 \in DataRows =>
                   GroupRank(output[i][1]) <= GroupRank(output[i + 1][1])
        /\ \A i \in DataRows :
               /\ output[i][1] = "In-Degree" => PairAt(i, "In-Degree", "Out-Degree")
               /\ output[i][1] = "Out-Degree" =>
                      i - 1 \in DataRows /\ PairAt(i - 1, "In-Degree", "Out-Degree")
               /\ output[i][1] = "Weighted Betweenness" =>
                      PairAt(i, "Weighted Betweenness", "Weighted Closeness")
               /\ output[i][1] = "Weighted Closeness" =>
                      i - 1 \in DataRows
                      /\ PairAt(i - 1, "Weighted Betweenness", "Weighted Closeness")

\* C10 witness: an output file with the degree rows of two participants, the
\* Out-Degree row of the first before the In-Degree row of the second, and
\* rows of all seven results.
C10_Witness ==
    /\ pc = "merged"
    /\ \E i \in DataRows :
           /\ output[i][1] = "Out-Degree"
           /\ i + 1 \in DataRows
           /\ output[i + 1][1] = "In-Degree"
    /\ {GroupRank(output[i][1]) : i \in DataRows} = {1, 2, 3, 4, 5, 7, 9}

\* The node index of a participant of the analysed batch.
NodeOf(p) == CHOOSE n \in node_indices(graph) : graph.nodes[n] = p

\* C11: each row of a paired result carries its own component as its Score:
\* the In-Degree row the participant's in-degree, the Out-Degree row its
\* out-degree, the Weighted Betweenness row its weighted betweenness and the
\* Weighted Closeness row its weighted closeness.
C11_OwnComponent ==
    pc = "merged" =>
        \A i \in DataRows :
            LET tag == output[i][1]
                node == NodeOf(output[i][2])
            IN  /\ tag = "In-Degree" =>
                       output[i][3] = Field(in_out_degree_centrality[node][1])
                /\ tag = "Out-Degree" =>
                       output[i][3] = Field(in_out_degree_centrality[node][2])
                /\ tag = "Weighted Betweenness" =>
                       output[i][3] = Field(weighted_centrality[1][node])
                /\ tag = "Weighted Closeness" =>
                       output[i][3] = Field(weighted_centrality[2][node])

ScoreTags ==
    {"PageRank", "Betweenness Centrality", "Closeness Centrality", "In-Degree",
     "Out-Degree", "Weighted Betweenness", "Weighted Closeness"}
\* The analysis types whose rows carry the four statistics and no Score.
StatTags == {"Player Performance", "Mean/Mode Metrics"}

\* C13: the merged table starts with the exact header row and every data
\* row has exactly seven fields; a centrality or degree row has Win Rate,
\* Draws, Mean Rating Diff and Game Count empty, a performance or mean/mode
\* row has Score empty.
C13_Rectangular ==
    pc = "merged" =>
        /\ Len(output) >= 1
        /\ output[1] = <<"Analysis Type", "Player", "Score", "Win Rate", "Draws",
                         "Mean Rating Diff", "Game Count">>
        /\ \A i \in DataRows :
               /\ Len(output[i]) = 7
               /\ output[i][1] \in ScoreTags \cup StatTags
               /\ output[i][1] \in ScoreTags =>
                      \A f \in 4 .. 7 : output[i][f] = ""
               /\ output[i][1] \in StatTags => output[i][3] = ""

\* C13 witness: an output file with rows of all nine analysis types.
C13_Witness ==
    /\ pc = "merged"
    /\ {output[i][1] : i \in DataRows} = ScoreTags \cup StatTags

\* The nodes with an edge leaving them, and those with an edge entering them.
HasOutgoing(g) == {g.edges[e][1] : e \in DOMAIN g.edges}
HasIncoming(g) == {g.edges[e][2] : e \in DOMAIN g.edges}

\* C14: for the graph built from the batch, calculate_pagerank returns one
\* score per graph node: the key set of the mapping is the set of the graph's
\* node indices, nodes with only incoming or only outgoing edges included.
C14_OneScorePerNode ==
    pc \in {"pagerank", "betweenness", "closeness", "degree", "done"} =>
        DOMAIN pagerank_scores = node_indices(graph)

\* C14 witness: scores computed for a graph with a node that has only
\* outgoing edges, a node that has only incoming edges and a node with both.
C14_Witness ==
    /\ pc = "pagerank"
    /\ node_count(graph) = 3
    /\ HasOutgoing(graph) \ HasIncoming(graph) # {}
    /\ HasIncoming(graph) \ HasOutgoing(graph) # {}
    /\ HasIncoming(graph) \cap HasOutgoing(graph) # {}
    /\ DOMAIN pagerank_scores = {1, 2, 3}

\* The rows of one analysis type in the output file, and their participants.
RowsOfType(tag) == {i \in DataRows : output[i][1] = tag}
PlayersOfType(tag) == {output[i][2] : i \in RowsOfType(tag)}
NamesOf(nodes) == {graph.nodes[n] : n \in nodes}
\* The analysis type has one row for each of the given participants.
OneRowEach(tag, names) ==
    /\ PlayersOfType(tag) = names
    /\ Cardinality(RowsOfType(tag)) = Cardinality(names)

\* C15: no result is lost between export and merge: each analysis type has
\* a row in the output file for every entry of its result mapping (a paired
\* result a row of each of its two types).
C15_NothingLost ==
    pc = "merged" =>
        /\ OneRowEach("PageRank", NamesOf(DOMAIN pagerank_scores))
        /\ OneRowEach("Betweenness Centrality", NamesOf(DOMAIN betweenness_centrality))
        /\ OneRowEach("Closeness Centrality", NamesOf(DOMAIN closeness_centrality))
        /\ OneRowEach("Player Performance", DOMAIN performance)
        /\ OneRowEach("In-Degree", NamesOf(DOMAIN in_out_degree_centrality))
        /\ OneRowEach("Out-Degree", NamesOf(DOMAIN in_out_degree_centrality))
        /\ OneRowEach("Weighted Betweenness", NamesOf(DOMAIN weighted_centrality[1]))
        /\ OneRowEach("Weighted Closeness", NamesOf(DOMAIN weighted_centrality[2]))
        /\ OneRowEach("Mean/Mode Metrics", DOMAIN mean_mode_metrics)

\* The export file holds one record for each of the given participants and
\* no other record.
HoldsExactly(file, names) ==
    /\ {file[i][1] : i \in DOMAIN file} = names
    /\ Len(file) = Cardinality(names)

\* C16: after the exports of a run every export file holds exactly the rows
\* of the mapping of that run, whatever earlier runs had left in the file.
C16_ExactlyTheMapping ==
    pc = "merged" =>
        /\ HoldsExactly(files.pr_scores, NamesOf(DOMAIN pagerank_scores))
        /\ HoldsExactly(files.btw_scores, NamesOf(DOMAIN betweenness_centrality))
        /\ HoldsExactly(files.cls_scores, NamesOf(DOMAIN closeness_centrality))
        /\ HoldsExactly(files.player_perf, DOMAIN performance)
        /\ HoldsExactly(files.in_out_degree, NamesOf(DOMAIN in_out_degree_centrality))
        /\ HoldsExactly(files.weighted_centrality, NamesOf(DOMAIN weighted_centrality[1]))
        /\ HoldsExactly(files.mean_mode_metrics, DOMAIN mean_mode_metrics)

\* C17: every Player Performance row carries the participant's record under
\* the matching columns: Win Rate its win_rate, Draws its games_drawn and
\* Game Count its games_played.
C17_PerformanceColumns ==
    pc = "merged" =>
        \A i \in RowsOfType("Player Performance") :
            LET stats == performance[output[i][2]]
            IN  /\ output[i][4] = Field(stats.win_rate)
                /\ output[i][5] = Field(stats.games_drawn)
                /\ output[i][7] = Field(stats.games_played)

\* The data rows of the output file at position i (counted from 1): the
\* lines after its header line.
SubsetRows(i) == Tail(subset_files[i])
RECURSIVE AllSubsetRows(_)
AllSubsetRows(i) ==
    IF i = 0 THEN <<>> ELSE AllSubsetRows(i - 1) \o SubsetRows(i)
\* The lines of the combined data as distribute_data writes them.
WrittenForm(lines) ==
    [r \in DOMAIN lines |-> SelectColumns(lines[r], column_indices(header, 1))]
Distributed == returned # "pending" /\ Len(combined_data) >= 1

\* C18: for n >= 1 data rows and k >= 1 output files the call returns
\* normally and the files, taken in order, hold the rows as contiguous
\* blocks in input order, each row once: file i (counted from 0) holds
\* floor(n/k) rows and one more if i < n mod k, so that the counts differ by
\* at most one and sum to n.  With no output file and some data the call
\* does not return normally.
C18_ContiguousBlocks ==
    Distributed =>
        LET n == Len(combined_data)
            k == Len(output_files)
        IN  /\ k >= 1 =>
                   /\ returned = "Ok"
                   /\ Len(subset_files) = k
                   /\ \A i \in 1 .. k :
                          Len(SubsetRows(i))
                              = (n \div k) + (IF i - 1 < n % k THEN 1 ELSE 0)
                   /\ \A i \in 1 .. k, j \in 1 .. k :
                          Len(SubsetRows(i)) - Len(SubsetRows(j)) \in {-1, 0, 1}
                   /\ Len(AllSubsetRows(k)) = n
                   /\ AllSubsetRows(k) = WrittenForm(combined_data)
            /\ k = 0 => returned = "panic"

\* C18 witness: four rows distributed over three files, the first file
\* holding two rows and the others one row each.
C18_Witness ==
    /\ returned = "Ok"
    /\ Len(combined_data) = 4
    /\ Len(output_files) = 3
    /\ Len(SubsetRows(1)) = 2
    /\ Len(SubsetRows(2)) = 1
    /\ Len(SubsetRows(3)) = 1
    /\ SubsetRows(3)[1] = SelectColumns(combined_data[4], column_indices(header, 1))

\* C18 witness of the failing call: data rows and no output file.
C18_WitnessNoFiles ==
    /\ returned = "panic"
    /\ Len(combined_data) >= 1
    /\ output_files = <<>>

====
